---------------------------- MODULE Spec2Model ----------------------------
(***************************************************************************)
(* A model of the .env parsing engine, src/src/core/parser.rs:             *)
(* Parser::parse_content and everything it calls.  A string is a sequence  *)
(* of one-character strings.  One behaviour is Parser::new(config) and one *)
(* call of parse_content on one content: the line scan (one step per line  *)
(* of content.lines()), the end-of-input check, and the expansion pass     *)
(* (one step per iteration of expand_value's character loop, the recursive *)
(* calls kept as an explicit sequence of frames).                          *)
(***************************************************************************)
EXTENDS Integers, Sequences, FiniteSets, TLC

VARIABLES
  config,         \* Parser.config (ParserConfig), never written after Init
  content,        \* the &str handed to parse_content
  pc,             \* "new", "scan" (the for loop), "expand" (expand_all), "done"
  idx,            \* enumerate() index of the next line; line_num = idx + 1
  vars,           \* parse_content's `vars` map (seen through &mut in expand_all)
  ml_key,         \* Option<String>: << >> is None, <<k>> is Some(k)
  ml_value,
  ml_quote,
  ml_start_line,
  keys,           \* expand_all: the snapshot keys not visited yet
  expanded,       \* expand_all: the map under construction
  cur_key,        \* expand_all: the key of the running loop iteration
  stack,          \* expand_all/expand_value: names being expanded
  frames,         \* the active expand_value calls, innermost last
  result,         \* what parse_content returns; kind "Running" until then
  suspended       \* the locals of the other calls on this Parser, not
                  \* running at the moment (none unless the Parser is shared)

vars_all == <<config, suspended, content, pc, idx, vars, ml_key, ml_value, ml_quote,
              ml_start_line, keys, expanded, cur_key, stack, frames, result>>

---------------------------------------------------------------------------
(* Characters and the str methods the parser uses.                         *)

AsciiUpper == <<"A","B","C","D","E","F","G","H","I","J","K","L","M",
                "N","O","P","Q","R","S","T","U","V","W","X","Y","Z">>
AsciiLower == <<"a","b","c","d","e","f","g","h","i","j","k","l","m",
                "n","o","p","q","r","s","t","u","v","w","x","y","z">>
AsciiDigit == {"0","1","2","3","4","5","6","7","8","9"}

Range(s) == { s[i] : i \in DOMAIN s }

\* `let x = v; F(x)`: v is evaluated once and F works on its value (an
\* evaluation device, the meaning is F(v))
Let(v, F(_)) == CHOOSE r \in { F(x) : x \in {v} } : TRUE

\* char::is_ascii_alphabetic
is_ascii_alphabetic(c) == c \in Range(AsciiUpper) \cup Range(AsciiLower)

\* char::is_ascii_alphanumeric
is_ascii_alphanumeric(c) == is_ascii_alphabetic(c) \/ c \in AsciiDigit

\* char::is_whitespace, on the characters a model input can hold
is_whitespace(c) == c \in {" ", "\t", "\n", "\r"}

\* char::to_uppercase on one character (only ASCII letters change here)
to_upper_char(c) ==
  IF c \in Range(AsciiLower)
    THEN AsciiUpper[CHOOSE i \in DOMAIN AsciiLower : AsciiLower[i] = c]
    ELSE c

\* str::to_uppercase
to_uppercase(s) == [i \in DOMAIN s |-> to_upper_char(s[i])]

\* str::find(char): the 1-based position of the first c, 0 for None
find(s, c) ==
  IF \E i \in DOMAIN s : s[i] = c
    THEN CHOOSE i \in DOMAIN s : s[i] = c /\ \A j \in 1..(i - 1) : s[j] # c
    ELSE 0

\* str::trim_start
trim_start(s) ==
  IF \A i \in DOMAIN s : is_whitespace(s[i])
    THEN << >>
    ELSE SubSeq(s, CHOOSE i \in DOMAIN s :
                     /\ ~is_whitespace(s[i])
                     /\ \A j \in 1..(i - 1) : is_whitespace(s[j]),
                Len(s))

\* str::trim_end
trim_end(s) ==
  IF \A i \in DOMAIN s : is_whitespace(s[i])
    THEN << >>
    ELSE SubSeq(s, 1, CHOOSE i \in DOMAIN s :
                        /\ ~is_whitespace(s[i])
                        /\ \A j \in (i + 1)..Len(s) : is_whitespace(s[j]))

\* str::trim
trim(s) == Let(trim_start(s), LAMBDA t : trim_end(t))

\* str::starts_with(&str)
starts_with(s, p) == Len(s) >= Len(p) /\ SubSeq(s, 1, Len(p)) = p

\* str::ends_with(char)
ends_with(s, c) == Len(s) >= 1 /\ s[Len(s)] = c

\* str::trim_start_matches(char): every leading occurrence of q is removed
trim_start_matches(s, q) ==
  IF \A i \in DOMAIN s : s[i] = q
    THEN << >>
    ELSE SubSeq(s, CHOOSE i \in DOMAIN s :
                     /\ s[i] # q
                     /\ \A j \in 1..(i - 1) : s[j] = q,
                Len(s))

\* One line of str::lines(): a "\r" directly before the "\n" goes with it
StripCR(s) == IF ends_with(s, "\r") THEN SubSeq(s, 1, Len(s) - 1) ELSE s

\* str::lines(): split at "\n"; no empty line after a final "\n"
RECURSIVE lines(_)
lines(s) ==
  IF s = << >> THEN << >>
  ELSE Let(find(s, "\n"), LAMBDA nl :
         IF nl = 0 THEN <<s>>
         ELSE <<StripCR(SubSeq(s, 1, nl - 1))>>
                \o Let(SubSeq(s, nl + 1, Len(s)), LAMBDA rest : lines(rest)))

---------------------------------------------------------------------------
(* ParserConfig and ParseError.                                            *)

DefaultDepth == 10

\* impl Default for ParserConfig
DefaultConfig ==
  [allow_expansion |-> TRUE, strict |-> FALSE,
   max_expansion_depth |-> DefaultDepth, allow_inline_comments |-> TRUE,
   trim_values |-> TRUE, allow_multiline |-> TRUE]

Running == [kind |-> "Running"]
Ok(m) == [kind |-> "Ok", vars |-> m]
InvalidFormat(n) ==
  [kind |-> "InvalidFormat", line |-> n,
   message |-> <<"m","i","s","s","i","n","g"," ","'","=","'"," ",
                 "s","e","p","a","r","a","t","o","r">>]
InvalidKey(n, k) == [kind |-> "InvalidKey", line |-> n, key |-> k]
UndefinedVariable(n, v) == [kind |-> "UndefinedVariable", line |-> n, var |-> v]
CircularExpansion(n, c) == [kind |-> "CircularExpansion", line |-> n, cycle |-> c]
UnterminatedString(n) == [kind |-> "UnterminatedString", line |-> n]
ExpansionDepthExceeded(n, m) ==
  [kind |-> "ExpansionDepthExceeded", line |-> n, max |-> m]

\* (variant) an entry that exists keeps its value
insert_if_absent(m, k, v) ==
  [x \in DOMAIN m \cup {k} |-> IF x \in DOMAIN m THEN m[x] ELSE v]

\* HashMap::new and HashMap::insert
EmptyMap == [k \in {} |-> << >>]
insert(m, k, v) == [x \in DOMAIN m \cup {k} |-> IF x = k THEN v ELSE m[x]]

---------------------------------------------------------------------------
(* The line splitter and the value decoder: pure functions of the          *)
(* configuration and their arguments.                                      *)

Export == <<"e","x","p","o","r","t">>

\* (variant) split_key_value splitting at the last `=` of the line
split_key_value_last_eq(line, line_num) ==
  Let(IF starts_with(line, Export)
        THEN trim_start(SubSeq(line, Len(Export) + 1, Len(line)))
        ELSE line,
      LAMBDA l :
        Let(IF find(l, "=") = 0 THEN 0
            ELSE CHOOSE i \in DOMAIN l :
                   l[i] = "=" /\ \A j \in (i + 1)..Len(l) : l[j] # "=",
            LAMBDA eq :
          IF eq = 0
            THEN [ok |-> FALSE, err |-> InvalidFormat(line_num)]
            ELSE [ok |-> TRUE,
                  key |-> trim(SubSeq(l, 1, eq - 1)),
                  raw |-> SubSeq(l, eq + 1, Len(l))]))

\* Parser::split_key_value: [ok, key, raw] or [ok |-> FALSE, err]
split_key_value(line, line_num) ==
  Let(IF starts_with(line, Export)
        THEN trim_start(SubSeq(line, Len(Export) + 1, Len(line)))
        ELSE line,
      LAMBDA l :
        Let(find(l, "="), LAMBDA eq :
          IF eq = 0
            THEN [ok |-> FALSE, err |-> InvalidFormat(line_num)]
            ELSE [ok |-> TRUE,
                  key |-> trim(SubSeq(l, 1, eq - 1)),
                  raw |-> SubSeq(l, eq + 1, Len(l))]))

\* (variant) validate_key without the strict-mode test
validate_key_any_case(cfg, key) ==
  /\ key # << >>
  /\ is_ascii_alphabetic(key[1])
  /\ \A i \in 2..Len(key) : is_ascii_alphanumeric(key[i]) \/ key[i] = "_"

\* (variant) every key is accepted
validate_key_none(cfg, key) == TRUE

\* Parser::validate_key, as "the key is accepted"
validate_key(cfg, key) ==
  /\ key # << >>
  /\ is_ascii_alphabetic(key[1])
  /\ \A i \in 2..Len(key) : is_ascii_alphanumeric(key[i]) \/ key[i] = "_"
  /\ ~(cfg.strict /\ key # to_uppercase(key))

\* The three quote characters.  A TLA+ string cannot hold U+0060, so the
\* one-character string for the backtick is written "BACKTICK".
DQ == "\""
SQ == "'"
BQ == "BACKTICK"
QuoteChars == {DQ, SQ, BQ}

\* Parser::classify_quote: << >> is None, <<q>> is Some(q)
classify_quote(raw) ==
  Let(trim_start(raw), LAMBDA t :
    IF t # << >> /\ t[1] \in QuoteChars THEN <<t[1]>> ELSE << >>)

\* Parser::is_closed_quote
is_closed_quote(raw, q) ==
  Let(trim(raw), LAMBDA t : Len(t) >= 2 /\ t[1] = q /\ ends_with(t, q))

\* (variant) the text between the quotes is returned as it stands
unescape_none(s) == s

\* Parser::unescape_double
RECURSIVE unescape_double(_)
unescape_double(s) ==
  IF s = << >> THEN << >>
  ELSE IF s[1] # "\\" THEN <<s[1]>> \o unescape_double(Tail(s))
  ELSE IF Len(s) = 1 THEN <<"\\">>
  ELSE LET c    == s[2]
           rest == unescape_double(SubSeq(s, 3, Len(s)))
       IN CASE c = "n"  -> <<"\n">> \o rest
            [] c = "r"  -> <<"\r">> \o rest
            [] c = "t"  -> <<"\t">> \o rest
            [] c = "\\" -> <<"\\">> \o rest
            [] c = "\"" -> <<"\"">> \o rest
            [] c = "'"  -> <<"'">> \o rest
            [] OTHER    -> <<"\\", c>> \o rest

\* (variant) parse_value cutting at `#` whatever allow_inline_comments says
parse_value_always_cut(cfg, raw0, line_num) ==
  Let(trim_start(raw0), LAMBDA raw :
    IF raw = << >> THEN [ok |-> TRUE, value |-> << >>]
    ELSE LET first == raw[1] IN
      IF first = DQ THEN
        IF ~ends_with(raw, DQ) \/ Len(raw) < 2
          THEN [ok |-> FALSE, err |-> UnterminatedString(line_num)]
          ELSE [ok |-> TRUE,
                value |-> unescape_double(SubSeq(raw, 2, Len(raw) - 1))]
      ELSE IF first \in {SQ, BQ} THEN
        IF ~ends_with(raw, first) \/ Len(raw) < 2
          THEN [ok |-> FALSE, err |-> UnterminatedString(line_num)]
          ELSE [ok |-> TRUE, value |-> SubSeq(raw, 2, Len(raw) - 1)]
      ELSE
        Let(IF find(raw, "#") # 0
              THEN trim_end(SubSeq(raw, 1, find(raw, "#") - 1))
              ELSE trim_end(raw),
            LAMBDA val :
              [ok |-> TRUE,
               value |-> IF cfg.trim_values THEN trim(val) ELSE val]))

\* (variant) parse_value leaving the end of an unquoted value untrimmed
\* unless trim_values is set
parse_value_trim_by_switch(cfg, raw0, line_num) ==
  Let(trim_start(raw0), LAMBDA raw :
    IF raw = << >> THEN [ok |-> TRUE, value |-> << >>]
    ELSE LET first == raw[1] IN
      IF first = DQ THEN
        IF ~ends_with(raw, DQ) \/ Len(raw) < 2
          THEN [ok |-> FALSE, err |-> UnterminatedString(line_num)]
          ELSE [ok |-> TRUE,
                value |-> unescape_double(SubSeq(raw, 2, Len(raw) - 1))]
      ELSE IF first \in {SQ, BQ} THEN
        IF ~ends_with(raw, first) \/ Len(raw) < 2
          THEN [ok |-> FALSE, err |-> UnterminatedString(line_num)]
          ELSE [ok |-> TRUE, value |-> SubSeq(raw, 2, Len(raw) - 1)]
      ELSE
        Let(IF cfg.allow_inline_comments /\ find(raw, "#") # 0
              THEN SubSeq(raw, 1, find(raw, "#") - 1)
              ELSE raw,
            LAMBDA val :
              [ok |-> TRUE,
               value |-> IF cfg.trim_values THEN trim(val) ELSE val]))

\* Parser::parse_value: [ok, value] or [ok |-> FALSE, err]
parse_value(cfg, raw0, line_num) ==
  Let(trim_start(raw0), LAMBDA raw :
    IF raw = << >> THEN [ok |-> TRUE, value |-> << >>]
    ELSE LET first == raw[1] IN
      IF first = DQ THEN
        IF ~ends_with(raw, DQ) \/ Len(raw) < 2
          THEN [ok |-> FALSE, err |-> UnterminatedString(line_num)]
          ELSE [ok |-> TRUE,
                value |-> unescape_double(SubSeq(raw, 2, Len(raw) - 1))]
      ELSE IF first \in {SQ, BQ} THEN
        IF ~ends_with(raw, first) \/ Len(raw) < 2
          THEN [ok |-> FALSE, err |-> UnterminatedString(line_num)]
          ELSE [ok |-> TRUE, value |-> SubSeq(raw, 2, Len(raw) - 1)]
      ELSE
        Let(IF cfg.allow_inline_comments /\ find(raw, "#") # 0
              THEN trim_end(SubSeq(raw, 1, find(raw, "#") - 1))
              ELSE trim_end(raw),
            LAMBDA val :
              [ok |-> TRUE,
               value |-> IF cfg.trim_values THEN trim(val) ELSE val]))

---------------------------------------------------------------------------
(* parse_content, the line scan: one step per line of content.lines().     *)

\* (variant) line_num = the enumerate() index
line_num_zero_based == idx

Lines    == lines(content)
line_num == idx + 1
raw_line == Lines[idx + 1]
InScan   == pc = "scan" /\ idx < Len(Lines)

None == << >>
Some(x) == <<x>>

\* The value a closing line completes: ml_value, "\n", the text before the quote
close_value(acc, before_close) == acc \o <<"\n">> \o before_close

\* The value a continuation line extends: ml_value, "\n", the raw line
accumulate_value(acc, raw) == acc \o <<"\n">> \o raw

\* The content a block opens with: raw_value.trim_start_matches(q)
open_value(raw_value, q) == trim_start_matches(raw_value, q)

\* (variant) ml_start_line = the enumerate() index
open_line_zero_based(n) == n - 1

\* ml_start_line = line_num
open_line(n) == n

\* The for loop takes the next item of content.lines().enumerate()
next_line(i) == i + 1

\* Return Err(e) from parse_content: the locals are dropped as they stand
Fail(e) ==
  /\ result' = e
  /\ pc' = "done"
  /\ UNCHANGED <<config, suspended, content, idx, vars, ml_key, ml_value, ml_quote,
                 ml_start_line, keys, expanded, cur_key, stack, frames>>

\* (variant) any of the three quote characters closes the block
closes_block_any_quote(trimmed_end, q) ==
  IF trimmed_end = << >> THEN FALSE
  ELSE trimmed_end[Len(trimmed_end)] \in QuoteChars

\* trimmed_end.strip_suffix(ml_quote) is Some
closes_block(trimmed_end, q) == ends_with(trimmed_end, q)

\* A line read while ml_key is Some: it closes the block or is accumulated
ContinueMultiline ==
  /\ InScan
  /\ ml_key # None
  /\ \E trimmed_end \in {trim_end(raw_line)} :
       IF closes_block(trimmed_end, ml_quote)
         THEN /\ vars' = insert(vars, ml_key[1],
                           close_value(ml_value,
                             SubSeq(trimmed_end, 1, Len(trimmed_end) - 1)))
              /\ ml_key' = None
              /\ ml_value' = << >>
         ELSE /\ ml_value' = accumulate_value(ml_value, raw_line)
              /\ UNCHANGED <<vars, ml_key>>
  /\ idx' = next_line(idx)
  /\ UNCHANGED <<config, suspended, content, pc, ml_quote, ml_start_line, keys, expanded,
                 cur_key, stack, frames, result>>

\* (variant) only empty lines are passed over
IsSkipped_blank_only(line) == line = << >>

\* line.is_empty() || line.starts_with('#'), on the trimmed line
IsSkipped(line) == IF line = << >> THEN TRUE ELSE line[1] = "#"

\* (variant) the guard of the first match arm without its configuration test
OpensBlock_any_config(raw_value) ==
  Let(classify_quote(raw_value), LAMBDA q :
    q # None /\ ~is_closed_quote(raw_value, q[1]))

\* The guard of the first match arm
OpensBlock(raw_value) ==
  Let(classify_quote(raw_value), LAMBDA q :
    q # None /\ config.allow_multiline /\ ~is_closed_quote(raw_value, q[1]))

\* Past the continuation branch: a line read while ml_key is None
InLine == InScan /\ ml_key = None

\* A blank line or a full-line comment
SkipLine ==
  /\ InLine
  /\ \E line \in {trim(raw_line)} : IsSkipped(line)
  /\ idx' = next_line(idx)
  /\ UNCHANGED <<config, suspended, content, pc, vars, ml_key, ml_value, ml_quote,
                 ml_start_line, keys, expanded, cur_key, stack, frames, result>>

\* split_key_value(...)? fails
LineInvalidFormat ==
  /\ InLine
  /\ \E line \in {trim(raw_line)} :
       /\ ~IsSkipped(line)
       /\ \E kv \in {split_key_value(line, line_num)} :
            /\ ~kv.ok
            /\ Fail(kv.err)

\* validate_key(...)? fails
LineInvalidKey ==
  /\ InLine
  /\ \E line \in {trim(raw_line)} :
       /\ ~IsSkipped(line)
       /\ \E kv \in {split_key_value(line, line_num)} :
            /\ kv.ok
            /\ ~validate_key(config, kv.key)
            /\ Fail(InvalidKey(line_num, kv.key))

\* The first match arm: an opening quote that is not closed on this line
OpenMultiline ==
  /\ InLine
  /\ \E line \in {trim(raw_line)} :
       /\ ~IsSkipped(line)
       /\ \E kv \in {split_key_value(line, line_num)} :
            /\ kv.ok
            /\ validate_key(config, kv.key)
            /\ OpensBlock(kv.raw)
            /\ \E q \in {classify_quote(kv.raw)[1]} :
                 /\ ml_key' = Some(kv.key)
                 /\ ml_value' = open_value(kv.raw, q)
                 /\ ml_quote' = q
                 /\ ml_start_line' = open_line(line_num)
  /\ idx' = next_line(idx)
  /\ UNCHANGED <<config, suspended, content, pc, vars, keys, expanded, cur_key, stack,
                 frames, result>>

\* The second match arm: parse_value(...)? and vars.insert
LineValue ==
  /\ InLine
  /\ \E line \in {trim(raw_line)} :
       /\ ~IsSkipped(line)
       /\ \E kv \in {split_key_value(line, line_num)} :
            /\ kv.ok
            /\ validate_key(config, kv.key)
            /\ ~OpensBlock(kv.raw)
            /\ \E v \in {parse_value(config, kv.raw, line_num)} :
                 IF v.ok
                   THEN /\ vars' = insert(vars, kv.key, v.value)
                        /\ idx' = next_line(idx)
                        /\ UNCHANGED <<config, suspended, content, pc, ml_key, ml_value,
                                       ml_quote, ml_start_line, keys, expanded,
                                       cur_key, stack, frames, result>>
                   ELSE Fail(v.err)

\* (variant) expand_all runs whatever the configuration says
expansion_forced == TRUE

\* if self.config.allow_expansion
expansion_enabled == config.allow_expansion

\* After the loop: the unterminated-block check, then expand_all or Ok(vars)
EndOfInput ==
  /\ pc = "scan"
  /\ idx = Len(Lines)
  /\ IF ml_key # None
       THEN Fail(UnterminatedString(ml_start_line))
       ELSE IF expansion_enabled
         THEN /\ pc' = "expand"
              /\ keys' = DOMAIN vars
              /\ expanded' = EmptyMap
              /\ UNCHANGED <<config, suspended, content, idx, vars, ml_key, ml_value,
                             ml_quote, ml_start_line, cur_key, stack, frames,
                             result>>
         ELSE /\ pc' = "done"
              /\ result' = Ok(vars)
              /\ UNCHANGED <<config, suspended, content, idx, vars, ml_key, ml_value,
                             ml_quote, ml_start_line, keys, expanded, cur_key,
                             stack, frames>>

---------------------------------------------------------------------------
(* expand_all and expand_value.  A frame is one active call of             *)
(* expand_value: its `value`, the position of the next character its       *)
(* `chars` iterator yields (Len(value) + 1 once exhausted), its `result`   *)
(* so far and its `depth`.  line_hint is 0 in every call.                  *)

line_hint == 0

Frame(value, depth) ==
  [value |-> value, pos |-> 1, result |-> << >>, depth |-> depth]

Top     == frames[Len(frames)]
InValue == pc = "expand" /\ frames # << >> /\ Top.pos <= Len(Top.value)
ch      == Top.value[Top.pos]
Peek    == IF Top.pos < Len(Top.value) THEN Some(Top.value[Top.pos + 1]) ELSE None

IsIdent(c) == is_ascii_alphanumeric(c) \/ c = "_"

\* chars.by_ref().take_while(p).collect(), reading from position `from`,
\* with `fails` the positions whose character fails p: the characters
\* taken, and the position the iterator is left at.  The adaptor has pulled
\* the first character that fails p out of `chars` before it stops, so
\* that character is gone.
take_while(value, from, fails) ==
  IF \A i \in from..Len(value) : i \notin fails
    THEN [taken |-> SubSeq(value, from, Len(value)), next |-> Len(value) + 1]
    ELSE LET stop == CHOOSE i \in from..Len(value) :
                       /\ i \in fails
                       /\ \A j \in from..(i - 1) : j \notin fails
         IN [taken |-> SubSeq(value, from, stop - 1), next |-> stop + 1]

\* `${`: chars.next() drops the brace, then take_while(|c| c != '}')
brace_name(value, pos) ==
  take_while(value, pos + 2, { i \in DOMAIN value : value[i] = "}" })

\* `$` before an identifier character: take_while(is_ascii_alphanumeric or '_')
bare_name(value, pos) ==
  take_while(value, pos + 1, { i \in DOMAIN value : ~IsIdent(value[i]) })

\* (variant) only the name on top of the stack is compared
on_stack_top_only(stk, name) ==
  IF stk = << >> THEN FALSE ELSE stk[Len(stk)] = name

\* stack.contains(&var_name)
on_stack(stk, name) == name \in Range(stk)

\* format!("{} -> {}", stack.join(" -> "), var_name), as the list of names
cycle_text(stk, name) == Append(stk, name)

\* (variant) the ceiling itself is already too deep
too_deep_inclusive(depth) == depth >= config.max_expansion_depth

\* The entry test of expand_value
too_deep(depth) == depth > config.max_expansion_depth

\* (variant) the snapshot iterator yields a visited key again
remaining_all(ks, key) == ks

\* The snapshot iterator after it has yielded `key`
remaining(ks, key) == ks \ {key}

\* (variant) the expanded text of a reference is not pushed
splice_lost(parent_result, callee_result) == parent_result

\* What is spliced in for a reference: the callee's result
splice(parent_result, callee_result) == parent_result \o callee_result

\* (variant) the name stays on the stack after its expansion returned
pop_kept(stk) == stk

\* stack.pop()
pop(stk) == SubSeq(stk, 1, Len(stk) - 1)

\* The next position of the character loop after a plain character
advance(pos) == pos + 1

SetTop(f) == [frames EXCEPT ![Len(frames)] = f]

ExpandUnchanged == <<config, suspended, content, idx, ml_key, ml_value, ml_quote,
                     ml_start_line>>

\* The for loop of expand_all takes the next key (HashMap order: any) and
\* calls expand_value(&value, vars, &mut stack, 0, 0)
ExpandNextKey ==
  /\ pc = "expand"
  /\ frames = << >>
  /\ \E key \in keys :
       /\ keys' = remaining(keys, key)
       /\ cur_key' = key
       /\ stack' = << >>
       /\ IF too_deep(0)
            THEN /\ result' = ExpansionDepthExceeded(line_hint,
                                                     config.max_expansion_depth)
                 /\ pc' = "done"
                 /\ UNCHANGED frames
            ELSE /\ frames' = <<Frame(vars[key], 0)>>
                 /\ UNCHANGED <<pc, result>>
  /\ UNCHANGED <<vars, expanded>>
  /\ UNCHANGED ExpandUnchanged

\* ch != '$': result.push(ch)
ExpandLiteral ==
  /\ InValue
  /\ ch # "$"
  /\ frames' = SetTop([Top EXCEPT !.result = Append(@, ch),
                                  !.pos = advance(@)])
  /\ UNCHANGED <<pc, vars, keys, expanded, cur_key, stack, result>>
  /\ UNCHANGED ExpandUnchanged

\* The body shared by the two reference arms once var_name is collected
\* and the iterator stands at `next`
Reference(name, next, braced) ==
  IF on_stack(stack, name)
    THEN /\ result' = CircularExpansion(line_hint, cycle_text(stack, name))
         /\ pc' = "done"
         /\ UNCHANGED <<frames, stack>>
  ELSE IF name \in DOMAIN vars
    THEN /\ stack' = Append(stack, name)
         /\ IF too_deep(Top.depth + 1)
              THEN /\ result' = ExpansionDepthExceeded(line_hint,
                                                 config.max_expansion_depth)
                   /\ pc' = "done"
                   /\ UNCHANGED frames
              ELSE /\ frames' = Append(SetTop([Top EXCEPT !.pos = next]),
                                       Frame(vars[name], Top.depth + 1))
                   /\ UNCHANGED <<pc, result>>
  ELSE IF braced
    THEN /\ result' = UndefinedVariable(line_hint, name)
         /\ pc' = "done"
         /\ UNCHANGED <<frames, stack>>
    ELSE /\ frames' = SetTop([Top EXCEPT !.result = @ \o <<"$">> \o name,
                                         !.pos = next])
         /\ UNCHANGED <<pc, result, stack>>

\* Some(&'{'): the ${VAR} arm
ExpandBrace ==
  /\ InValue
  /\ ch = "$"
  /\ Peek = Some("{")
  /\ LET n == brace_name(Top.value, Top.pos)
     IN Reference(n.taken, n.next, TRUE)
  /\ UNCHANGED <<vars, keys, expanded, cur_key>>
  /\ UNCHANGED ExpandUnchanged

\* Some(&c) if c is an identifier character: the bare $VAR arm
ExpandBare ==
  /\ InValue
  /\ ch = "$"
  /\ Peek # None
  /\ IsIdent(Peek[1])
  /\ LET n == bare_name(Top.value, Top.pos)
     IN Reference(n.taken, n.next, FALSE)
  /\ UNCHANGED <<vars, keys, expanded, cur_key>>
  /\ UNCHANGED ExpandUnchanged

\* The last arm: a lone `$`
ExpandLoneDollar ==
  /\ InValue
  /\ ch = "$"
  /\ ~(Peek # None /\ (Peek[1] = "{" \/ IsIdent(Peek[1])))
  /\ frames' = SetTop([Top EXCEPT !.result = Append(@, "$"),
                                  !.pos = advance(@)])
  /\ UNCHANGED <<pc, vars, keys, expanded, cur_key, stack, result>>
  /\ UNCHANGED ExpandUnchanged

\* Ok(result): a nested call hands its result to the caller, which pops the
\* stack and splices it in; the outermost call hands it to expand_all,
\* which inserts it into `expanded`
ExpandReturn ==
  /\ pc = "expand"
  /\ frames # << >>
  /\ Top.pos > Len(Top.value)
  /\ IF Len(frames) = 1
       THEN /\ expanded' = insert(expanded, cur_key, Top.result)
            /\ frames' = << >>
            /\ UNCHANGED stack
       ELSE LET caller == frames[Len(frames) - 1] IN
            /\ stack' = pop(stack)
            /\ frames' = Append(SubSeq(frames, 1, Len(frames) - 2),
                                [caller EXCEPT !.result = splice(@, Top.result)])
            /\ UNCHANGED expanded
  /\ UNCHANGED <<pc, vars, keys, cur_key, result>>
  /\ UNCHANGED ExpandUnchanged

\* *vars = expanded; Ok(()) and, back in parse_content, Ok(vars)
ExpandFinish ==
  /\ pc = "expand"
  /\ frames = << >>
  /\ keys = {}
  /\ vars' = expanded
  /\ result' = Ok(expanded)
  /\ pc' = "done"
  /\ UNCHANGED <<keys, expanded, cur_key, stack, frames>>
  /\ UNCHANGED ExpandUnchanged

---------------------------------------------------------------------------
(* The inputs of the model: (configuration, content) pairs, in families.   *)

MaxQuoted   == 3   \* characters between the quotes of a quoted value
MaxKeyLen   == 3   \* characters of a key text
MaxLines    == 3   \* lines of a multi-line input
MaxCfgDepth == 2   \* max_expansion_depth ranges over 0..MaxCfgDepth and 10
MaxValueLen == 1   \* characters of a value of a serialized mapping

StringsUpTo(S, n) == UNION { [1..k -> S] : k \in 0..n }

\* The lines joined by "\n"
RECURSIVE Join(_)
Join(ls) ==
  IF ls = << >> THEN << >>
  ELSE IF Len(ls) = 1 THEN ls[1]
  ELSE ls[1] \o <<"\n">> \o Join(Tail(ls))

\* KEY='s' and KEY=`s` under the default configuration
QuotedAlphabet == {"a", "K", " ", "#", "$", "{", "}", "\\"}
QuoteInputs ==
  { [config |-> DefaultConfig, content |-> <<"K", "=", q>> \o s \o <<q>>] :
      q \in {SQ, BQ}, s \in StringsUpTo(QuotedAlphabet, MaxQuoted) }

\* Three assignments A, B, C whose values refer to each other, to the
\* undefined U, or to nothing, under every depth ceiling of the model
ExpandValues ==
  { <<"x">>,
    <<"$","{","A","}","/">>,
    <<"$","{","C","}","/">>,
    <<"p","$","{","B","}","/","q">>,
    <<"p","$","B","/","q">>,
    <<"p","$","U","/","q">>,
    <<"$","{","U","}">>,
    <<"$","B","$","A">>,
    <<"$","{","B","}","$","{","C","}">> }
DepthConfigs ==
  { [DefaultConfig EXCEPT !.max_expansion_depth = d] :
      d \in (0..MaxCfgDepth) \cup {DefaultDepth} }
ExpandInputs ==
  { [config |-> c,
     content |-> Join(<< <<"A","=">> \o a, <<"B","=">> \o b, <<"C","=">> \o v >>)] :
      c \in DepthConfigs, a \in ExpandValues, b \in ExpandValues,
      v \in ExpandValues }

\* The chain BASE <- API <- FULL of the expansion test, its lines in any order
ChainLines ==
  << <<"A","=","h">>,
     <<"B","=","$","{","A","}","/","a">>,
     <<"C","=","$","{","B","}","/","v">> >>
ChainInputs ==
  { [config |-> DefaultConfig,
     content |-> Join(<<ChainLines[p[1]], ChainLines[p[2]], ChainLines[p[3]]>>)] :
      p \in { f \in [1..3 -> 1..3] : \A i, j \in 1..3 : f[i] = f[j] => i = j } }

\* One assignment whose key text is any string over KeyAlphabet, on line 1
\* or behind another assignment, with strict off and on
KeyAlphabet == {"A", "b", "1", "_", "-", " "}
KeyInputs ==
  { [config |-> [DefaultConfig EXCEPT !.strict = st],
     content |-> pre \o k \o <<"=", "v">>] :
      st \in BOOLEAN,
      pre \in { << >>, <<"Z","=","1","\n">> },
      k \in StringsUpTo(KeyAlphabet, MaxKeyLen) }

\* Up to MaxLines lines that open, continue and close quoted blocks, with
\* allow_multiline on and off
BlockLines ==
  { <<"K","=",DQ,"a">>,
    <<"K","="," ",DQ,"a">>,
    <<"K","=",DQ,DQ,"a">>,
    <<"K","=",DQ,"\\","t">>,
    <<"K","=",DQ,"\\","t",DQ>>,
    <<"K","=",SQ,"$","{","J","}">>,
    <<"J","=","c">>,
    <<" ","b"," ">>,
    <<"b",DQ," ">>,
    <<"b",SQ>>,
    <<"#">> }
BlockInputs ==
  { [config |-> [DefaultConfig EXCEPT !.allow_multiline = ml],
     content |-> Join(ls)] :
      ml \in BOOLEAN,
      ls \in UNION { [1..n -> BlockLines] : n \in 1..MaxLines } }

\* Up to MaxLines lines of which each triggers one error condition (an
\* undefined ${U}, no `=`, a key that starts with a digit, a self-reference)
\* or none
ErrorLines ==
  { <<"A","=","$","{","U","}">>,
    <<"q">>,
    <<"1","=","v">>,
    <<"C","=","$","{","C","}">>,
    <<"D","=","x">> }
ErrorInputs ==
  { [config |-> DefaultConfig, content |-> Join(ls)] :
      ls \in UNION { [1..n -> ErrorLines] : n \in 1..MaxLines } }

\* The chain of the depth-limit test, A=h, B=${A}, C=${B}, D=${C}, under
\* the ceilings 0..MaxCfgDepth + 1
DepthChainInputs ==
  { [config |-> [DefaultConfig EXCEPT !.max_expansion_depth = d],
     content |-> Join(<< <<"A","=","h">>,
                         <<"B","=","$","{","A","}">>,
                         <<"C","=","$","{","B","}">>,
                         <<"D","=","$","{","C","}">> >>)] :
      d \in 0..(MaxCfgDepth + 1) }

\* The three-key contents with expansion switched off
NoExpandInputs ==
  { [config |-> [DefaultConfig EXCEPT !.allow_expansion = FALSE],
     content |-> i.content] : i \in ExpandInputs }

\* KEY="s" for every s of up to MaxQuoted characters over the escape
\* letters, the backslash, the quotes and a plain letter
EscapeAlphabet == {"\\", "n", "r", "t", DQ, SQ, "a"}
EscapeInputs ==
  { [config |-> DefaultConfig, content |-> <<"K", "=", DQ>> \o s \o <<DQ>>] :
      s \in StringsUpTo(EscapeAlphabet, MaxQuoted) }

\* KEY=s, KEY="s" and KEY='s' for every s of up to MaxQuoted characters
\* over a letter, the space and `#`, with inline comments on and off
CommentAlphabet == {"a", " ", "#"}
CommentInputs ==
  { [config |-> [DefaultConfig EXCEPT !.allow_inline_comments = ic],
     content |-> <<"K", "=">> \o q \o s \o q] :
      ic \in BOOLEAN,
      q \in {<< >>, <<DQ>>, <<SQ>>},
      s \in StringsUpTo(CommentAlphabet, MaxQuoted) }

\* A mapping written back as one KEY=value line per entry (each pushed as
\* format!("{}={}\n", key, value)), in any order of the entries, and parsed
\* with strict off and on
SerialKeys == { <<"A">>, <<"B","c">>, <<"d","_","1">> }
SerialAlphabet == {"a", "="}
SerialMappings ==
  UNION { [D -> StringsUpTo(SerialAlphabet, MaxValueLen)] : D \in SUBSET SerialKeys }
Orders(S) ==
  { o \in [1..Cardinality(S) -> S] :
      \A i, j \in 1..Cardinality(S) : o[i] = o[j] => i = j }
RECURSIVE format(_, _)
format(m, order) ==
  IF order = << >> THEN << >>
  ELSE order[1] \o <<"=">> \o m[order[1]] \o <<"\n">> \o format(m, Tail(order))
SerialInputs ==
  UNION { { [config |-> [DefaultConfig EXCEPT !.strict = st],
             content |-> format(m, o)] : o \in Orders(DOMAIN m) } :
          m \in SerialMappings, st \in BOOLEAN }

\* One assignment of the value v or of nothing to a key text, written with
\* and without the `export ` prefix, with strict off and on
ExportKeys ==
  { <<"A">>, <<"A", "b">>, <<"1">>, <<"e","x","p">>, Export,
    Export \o <<"A">>, Export \o <<"_", "A">>, Export \o <<"s">> }
ExportValues == { << >>, <<"v">> }
ExportPrefixes == { << >>, Export \o <<" ">> }
ExportInputs ==
  { [config |-> [DefaultConfig EXCEPT !.strict = st],
     content |-> pre \o k \o <<"=">> \o v] :
      st \in BOOLEAN, pre \in ExportPrefixes, k \in ExportKeys,
      v \in ExportValues }

\* Up to MaxLines lines with allow_multiline off, among them a value that
\* is a lone quote character and one opened with a backtick
NoBlockLines ==
  { <<"K","=",DQ>>,
    <<"K","=",BQ,"a">>,
    <<"J","=","c">>,
    <<"b",DQ>> }
NoBlockInputs ==
  { [config |-> [DefaultConfig EXCEPT !.allow_multiline = FALSE],
     content |-> Join(ls)] :
      ls \in UNION { [1..n -> NoBlockLines] : n \in 1..MaxLines } }

\* Up to MaxLines lines: assignments of plain values, a blank line and a
\* full-line comment that reads like an assignment
SkipLines ==
  { <<"A","=","x">>,
    <<"B","=","y">>,
    <<"A","=","z">>,
    <<" ","#","A","=","q">>,
    <<" ","\t">> }
SkipInputs ==
  { [config |-> DefaultConfig, content |-> Join(ls)] :
      ls \in UNION { [1..n -> SkipLines] : n \in 1..MaxLines } }

\* References side by side and along two paths, under the ceilings
\* 0..MaxCfgDepth + 1: A=${B}${B}${B}, B=x and A=${B}${C}, B=${D}, C=${D}, D=x
SideBySide ==
  Join(<< <<"A","=","$","{","B","}","$","{","B","}","$","{","B","}">>,
          <<"B","=","x">> >>)
Diamond ==
  Join(<< <<"A","=","$","{","B","}","$","{","C","}">>,
          <<"B","=","$","{","D","}">>,
          <<"C","=","$","{","D","}">>,
          <<"D","=","x">> >>)
FanInputs ==
  { [config |-> [DefaultConfig EXCEPT !.max_expansion_depth = d],
     content |-> c] :
      d \in 0..(MaxCfgDepth + 1), c \in {SideBySide, Diamond} }

\* A first line with a key that breaks the key rule and a value that
\* leaves its quote open, alone or followed by a line that would close it,
\* with allow_multiline on and off
BadKeyQuoteLines ==
  { <<"1","=",DQ,"a">>,
    <<"1","=",SQ>>,
    <<"=",DQ,"a">>,
    <<"a","-","b","=",BQ,"a">> }
BadKeyQuoteInputs ==
  { [config |-> [DefaultConfig EXCEPT !.allow_multiline = ml],
     content |-> l \o rest] :
      ml \in BOOLEAN, l \in BadKeyQuoteLines,
      rest \in { << >>, <<"\n","b",DQ>> } }

\* Two keys that refer to each other, under the ceilings 0..MaxCfgDepth + 1
CycleDepthInputs ==
  { [config |-> [DefaultConfig EXCEPT !.max_expansion_depth = d],
     content |-> Join(<< <<"A","=","$","{","B","}">>,
                         <<"B","=","$","{","A","}">> >>)] :
      d \in 0..(MaxCfgDepth + 1) }

\* A key assigned more than once: up to MaxLines lines out of A=x, A=y and
\* B=${A}, and A assigned on one line and by a block, in both orders, with
\* B=${A} before them
DupLines ==
  { <<"A","=","x">>, <<"A","=","y">>, <<"B","=","$","{","A","}">> }
DupLineThenBlock ==
  Join(<< <<"B","=","$","{","A","}">>, <<"A","=","x">>,
          <<"A","=",DQ,"p">>, <<"q",DQ>> >>)
DupBlockThenLine ==
  Join(<< <<"B","=","$","{","A","}">>, <<"A","=",DQ,"p">>, <<"q",DQ>>,
          <<"A","=","x">> >>)
DupInputs ==
  { [config |-> DefaultConfig, content |-> c] :
      c \in { Join(ls) : ls \in UNION { [1..n -> DupLines] : n \in 1..MaxLines } }
             \cup {DupLineThenBlock, DupBlockThenLine} }

\* One assignment of a text of blanks, a letter, `#` and double quotes, with
\* trim_values, allow_inline_comments and allow_multiline on and off
TrimAlphabet == {" ", "a", "#", DQ}
TrimInputs ==
  { [config |-> [DefaultConfig EXCEPT !.trim_values = tv,
                                      !.allow_inline_comments = ic,
                                      !.allow_multiline = ml],
     content |-> <<"K", "=">> \o v] :
      tv \in BOOLEAN, ic \in BOOLEAN, ml \in BOOLEAN,
      v \in StringsUpTo(TrimAlphabet, MaxQuoted) }

Inputs == QuoteInputs \cup ExpandInputs \cup ChainInputs \cup KeyInputs
            \cup BlockInputs \cup ErrorInputs \cup DepthChainInputs
            \cup NoExpandInputs \cup EscapeInputs \cup CommentInputs
            \cup SerialInputs \cup ExportInputs \cup NoBlockInputs
            \cup SkipInputs \cup FanInputs \cup BadKeyQuoteInputs
            \cup CycleDepthInputs \cup DupInputs \cup TrimInputs

---------------------------------------------------------------------------
(* The specification.                                                      *)

\* Parser::new(config): a parser that has not been called yet
Init ==
  /\ config \in { i.config : i \in Inputs }
  /\ content = << >>
  /\ pc = "new"
  /\ idx = 0
  /\ vars = EmptyMap
  /\ ml_key = None
  /\ ml_value = << >>
  /\ ml_quote = DQ
  /\ ml_start_line = 0
  /\ keys = {}
  /\ expanded = EmptyMap
  /\ cur_key = << >>
  /\ stack = << >>
  /\ frames = << >>
  /\ result = Running
  /\ suspended = << >>

\* (variant) ml_key outlives the call, as a field of the Parser would
kept_ml_key == ml_key

\* let mut ml_key: Option<String> = None
new_ml_key == None

\* parse_content(&self, content) is entered: its locals as lines 297-303
\* initialise them, the line iterator at the first line
ParseContent ==
  /\ pc = "new"
  /\ \E i \in Inputs :
       /\ i.config = config
       /\ content' = i.content
  /\ pc' = "scan"
  /\ idx' = 0
  /\ vars' = EmptyMap
  /\ ml_key' = new_ml_key
  /\ ml_value' = << >>
  /\ ml_quote' = DQ
  /\ ml_start_line' = 0
  /\ UNCHANGED <<config, suspended, keys, expanded, cur_key, stack, frames, result>>

Next ==
  \/ ParseContent
  \/ ContinueMultiline
  \/ SkipLine
  \/ LineInvalidFormat
  \/ LineInvalidKey
  \/ OpenMultiline
  \/ LineValue
  \/ EndOfInput
  \/ ExpandNextKey
  \/ ExpandLiteral
  \/ ExpandBrace
  \/ ExpandBare
  \/ ExpandLoneDollar
  \/ ExpandReturn
  \/ ExpandFinish

Spec == Init /\ [][Next]_vars_all

\* parse_content runs to completion: it is one sequential call
LiveSpec == Spec /\ WF_vars_all(Next)

---------------------------------------------------------------------------
(* One Parser shared by two threads.  parse_content takes &self and keeps  *)
(* its working state in locals, so a call is its locals; the thread that   *)
(* is not scheduled has its call in `suspended`, and a thread whose call   *)
(* has returned may call again.                                            *)

\* The locals of the running call
Call ==
  [content |-> content, pc |-> pc, idx |-> idx, vars |-> vars,
   ml_key |-> ml_key, ml_value |-> ml_value, ml_quote |-> ml_quote,
   ml_start_line |-> ml_start_line, keys |-> keys, expanded |-> expanded,
   cur_key |-> cur_key, stack |-> stack, frames |-> frames,
   result |-> result]

\* A thread that has not called parse_content yet
NewCall ==
  [content |-> << >>, pc |-> "new", idx |-> 0, vars |-> EmptyMap,
   ml_key |-> None, ml_value |-> << >>, ml_quote |-> DQ,
   ml_start_line |-> 0, keys |-> {}, expanded |-> EmptyMap,
   cur_key |-> << >>, stack |-> << >>, frames |-> << >>,
   result |-> Running]

\* The contents the threads call with: a comment, assignments and the
\* three forms of `$`; a block left open; a block closed on line 2; a line
\* without `=`; a key that starts with a digit; one assignment
SharedSkipAndExpand ==
  Join(<< <<"#">>, <<"A","=","x">>, <<"B","=","$","{","A","}","$","A">>,
          <<"C","=","$">> >>)
SharedOpenBlock   == <<"K","=",DQ,"a">>
SharedClosedBlock == Join(<< <<"K","=",DQ,"a">>, <<"b",DQ>> >>)
SharedNoSeparator == <<"q">>
SharedBadKey      == <<"1","=","v">>
SharedAssignment  == <<"A","=","x">>
SharedInputs ==
  { SharedSkipAndExpand, SharedOpenBlock, SharedClosedBlock,
    SharedNoSeparator, SharedBadKey, SharedAssignment }

SharedInit ==
  /\ config = DefaultConfig
  /\ content = << >>
  /\ pc = "new"
  /\ idx = 0
  /\ vars = EmptyMap
  /\ ml_key = None
  /\ ml_value = << >>
  /\ ml_quote = DQ
  /\ ml_start_line = 0
  /\ keys = {}
  /\ expanded = EmptyMap
  /\ cur_key = << >>
  /\ stack = << >>
  /\ frames = << >>
  /\ result = Running
  /\ suspended = <<NewCall>>

\* A thread enters parse_content, for the first time or after its previous
\* call returned: every local is created anew (lines 297-303, and the
\* locals of expand_all when it is reached)
ParseContentShared ==
  /\ pc \in {"new", "done"}
  /\ content' \in SharedInputs
  /\ pc' = "scan"
  /\ idx' = 0
  /\ vars' = EmptyMap
  /\ ml_key' = new_ml_key
  /\ ml_value' = << >>
  /\ ml_quote' = DQ
  /\ ml_start_line' = 0
  /\ keys' = {}
  /\ expanded' = EmptyMap
  /\ cur_key' = << >>
  /\ stack' = << >>
  /\ frames' = << >>
  /\ result' = Running
  /\ UNCHANGED <<config, suspended>>

\* The scheduler runs the other thread: the running call is set aside with
\* its locals and the suspended one goes on from where it was
Switch ==
  /\ suspended # << >>
  /\ suspended' = <<Call>>
  /\ content' = suspended[1].content
  /\ pc' = suspended[1].pc
  /\ idx' = suspended[1].idx
  /\ vars' = suspended[1].vars
  /\ ml_key' = suspended[1].ml_key
  /\ ml_value' = suspended[1].ml_value
  /\ ml_quote' = suspended[1].ml_quote
  /\ ml_start_line' = suspended[1].ml_start_line
  /\ keys' = suspended[1].keys
  /\ expanded' = suspended[1].expanded
  /\ cur_key' = suspended[1].cur_key
  /\ stack' = suspended[1].stack
  /\ frames' = suspended[1].frames
  /\ result' = suspended[1].result
  /\ UNCHANGED config

SharedNext ==
  \/ ParseContentShared
  \/ Switch
  \/ ContinueMultiline
  \/ SkipLine
  \/ LineInvalidFormat
  \/ LineInvalidKey
  \/ OpenMultiline
  \/ LineValue
  \/ EndOfInput
  \/ ExpandNextKey
  \/ ExpandLiteral
  \/ ExpandBrace
  \/ ExpandBare
  \/ ExpandLoneDollar
  \/ ExpandReturn
  \/ ExpandFinish

SharedSpec == SharedInit /\ [][SharedNext]_vars_all

---------------------------------------------------------------------------
(* Two runs side by side, to compare what parse_content returns for one    *)
(* content: the runs of SharedSpec, with contents among which several keys *)
(* fail to expand in different ways.                                       *)

\* An undefined ${U} and a self-reference; a cycle of two keys
TwinUndefinedAndCycle ==
  Join(<< <<"A","=","$","{","U","}">>, <<"C","=","$","{","C","}">> >>)
TwinCycleOfTwo ==
  Join(<< <<"A","=","$","{","B","}">>, <<"B","=","$","{","A","}">> >>)
TwinInputs == SharedInputs \cup {TwinUndefinedAndCycle, TwinCycleOfTwo}

\* A run is started, its locals new
ParseContentTwin ==
  /\ pc \in {"new", "done"}
  /\ content' \in TwinInputs
  /\ pc' = "scan"
  /\ idx' = 0
  /\ vars' = EmptyMap
  /\ ml_key' = new_ml_key
  /\ ml_value' = << >>
  /\ ml_quote' = DQ
  /\ ml_start_line' = 0
  /\ keys' = {}
  /\ expanded' = EmptyMap
  /\ cur_key' = << >>
  /\ stack' = << >>
  /\ frames' = << >>
  /\ result' = Running
  /\ UNCHANGED <<config, suspended>>

TwinNext ==
  \/ ParseContentTwin
  \/ Switch
  \/ ContinueMultiline
  \/ SkipLine
  \/ LineInvalidFormat
  \/ LineInvalidKey
  \/ OpenMultiline
  \/ LineValue
  \/ EndOfInput
  \/ ExpandNextKey
  \/ ExpandLiteral
  \/ ExpandBrace
  \/ ExpandBare
  \/ ExpandLoneDollar
  \/ ExpandReturn
  \/ ExpandFinish

TwinSpec == SharedInit /\ [][TwinNext]_vars_all

---------------------------------------------------------------------------
(* What the claims are stated with: the outcome of the call, and the text  *)
(* of the input read independently of the parser's own functions.          *)

Done      == pc = "done"
Succeeded == Done /\ result.kind = "Ok"

\* The maximal run of identifier characters of v that starts at position i
IdentRun(v, i) ==
  LET stop == IF \A j \in i..Len(v) : IsIdent(v[j]) THEN Len(v) + 1
              ELSE CHOOSE j \in i..Len(v) :
                     ~IsIdent(v[j]) /\ \A h \in i..(j - 1) : IsIdent(v[h])
  IN SubSeq(v, i, stop - 1)

\* The position of the first "}" of v at or after i, 0 if there is none
CloseAt(v, i) ==
  IF \E j \in i..Len(v) : v[j] = "}"
    THEN CHOOSE j \in i..Len(v) : v[j] = "}" /\ \A h \in i..(j - 1) : v[h] # "}"
    ELSE 0

\* An input of assignments <capital letter>=<text>, one per line, with
\* distinct keys and a text of letters, `$`, braces and `/`, parsed with
\* expansion enabled: the decoded value of a key is the text of its line
RefChars == Range(AsciiUpper) \cup Range(AsciiLower) \cup {"$", "{", "}", "/"}
IsRefInput ==
  /\ config.allow_expansion
  /\ Lines # << >>
  /\ \A i \in DOMAIN Lines :
       /\ Len(Lines[i]) >= 2
       /\ Lines[i][1] \in Range(AsciiUpper)
       /\ Lines[i][2] = "="
       /\ \A j \in 3..Len(Lines[i]) : Lines[i][j] \in RefChars
  /\ \A i, j \in DOMAIN Lines : Lines[i][1] = Lines[j][1] => i = j
DeclaredKeys == { <<Lines[i][1]>> : i \in DOMAIN Lines }
Declared(k) ==
  LET l == Lines[CHOOSE i \in DOMAIN Lines : Lines[i][1] = k[1]]
  IN SubSeq(l, 3, Len(l))

\* v with every reference to a key of m, `${NAME}` or bare `$NAME`, replaced
\* by m[NAME] and every other character kept
RECURSIVE SubstRefs(_, _)
SubstRefs(v, m) ==
  IF v = << >> THEN << >>
  ELSE IF v[1] # "$" THEN <<v[1]>> \o SubstRefs(Tail(v), m)
  ELSE IF Len(v) >= 2 /\ v[2] = "{" /\ CloseAt(v, 3) # 0
            /\ SubSeq(v, 3, CloseAt(v, 3) - 1) \in DOMAIN m
    THEN m[SubSeq(v, 3, CloseAt(v, 3) - 1)]
           \o SubstRefs(SubSeq(v, CloseAt(v, 3) + 1, Len(v)), m)
  ELSE IF Len(v) >= 2 /\ IsIdent(v[2]) /\ IdentRun(v, 2) \in DOMAIN m
    THEN m[IdentRun(v, 2)]
           \o SubstRefs(SubSeq(v, 2 + Len(IdentRun(v, 2)), Len(v)), m)
  ELSE <<"$">> \o SubstRefs(Tail(v), m)

\* The names v refers to with `${NAME}`, and with a bare `$NAME`
BraceRefs(v) ==
  { SubSeq(v, i + 2, CloseAt(v, i + 2) - 1) :
      i \in { j \in 1..(Len(v) - 1) :
                v[j] = "$" /\ v[j + 1] = "{" /\ CloseAt(v, j + 2) # 0 } }
BareRefs(v) ==
  { IdentRun(v, i + 1) :
      i \in { j \in 1..(Len(v) - 1) : v[j] = "$" /\ IsIdent(v[j + 1]) } }

---------------------------------------------------------------------------
(* C1: under the default configuration, for every s without a single       *)
(* quote and without a line break, KEY='s' parses and maps KEY to exactly  *)
(* s, with every `#`, `$`, `${...}`, backslash and space of s kept         *)
(* (likewise for a backtick-quoted s without a backtick).                  *)

IsQuotedInput ==
  /\ config = DefaultConfig
  /\ Len(content) >= 4
  /\ SubSeq(content, 1, 2) = <<"K", "=">>
  /\ content[3] \in {SQ, BQ}
  /\ content[Len(content)] = content[3]
  /\ \A i \in 4..(Len(content) - 1) : content[i] \notin {content[3], "\n", "\r"}
QuotedText == SubSeq(content, 4, Len(content) - 1)

C1_QuotedValueIsLiteral ==
  (Done /\ IsQuotedInput) =>
     /\ result.kind = "Ok"
     /\ DOMAIN result.vars = {<<"K">>}
     /\ result.vars[<<"K">>] = QuotedText

---------------------------------------------------------------------------
(* C2: for an undefined NAME, a value with a bare `$NAME` parses and keeps *)
(* the text `$NAME` and every character before and after it, while a       *)
(* value with `${NAME}` makes the parse fail with UndefinedVariable whose  *)
(* var is NAME.                                                            *)

Undefined(v) == (BraceRefs(v) \cup BareRefs(v)) \ DeclaredKeys
RefersOnlyToUndefined(v) ==
  (BraceRefs(v) \cup BareRefs(v)) \cap DeclaredKeys = {}

C2_UndefinedBareKeptBraceFails ==
  (Done /\ IsRefInput /\ \A k \in DeclaredKeys : RefersOnlyToUndefined(Declared(k)))
    => IF \E k \in DeclaredKeys : BraceRefs(Declared(k)) # {}
         THEN /\ result.kind = "UndefinedVariable"
              /\ \E k \in DeclaredKeys : result.var \in BraceRefs(Declared(k))
         ELSE /\ result.kind = "Ok"
              /\ \A k \in DeclaredKeys : result.vars[k] = Declared(k)

---------------------------------------------------------------------------
(* C3: a bare `$NAME` of a defined NAME is replaced by NAME's expanded     *)
(* value exactly as `${NAME}` would be, the characters before and after    *)
(* the reference kept: URL=$BASE/api resolves to BASE's value followed by  *)
(* /api, and X=p$NAME/q gets the value X=p${NAME}/q gets.                  *)

C3_BareReferenceExpandsInPlace ==
  (Succeeded /\ IsRefInput) =>
     \A k \in DeclaredKeys :
        ( /\ Cardinality({ i \in DOMAIN Declared(k) : Declared(k)[i] = "$" }) = 1
          /\ BareRefs(Declared(k)) # {}
          /\ BareRefs(Declared(k)) \subseteq DeclaredKeys )
          => result.vars[k] = SubstRefs(Declared(k), result.vars)

---------------------------------------------------------------------------
(* C4: with expansion enabled and no error, the final value of each key    *)
(* is its decoded value with every `${NAME}` replaced by the final value   *)
(* of NAME, transitively; the lookup sees every line of the input, so the  *)
(* mapping is the same wherever NAME is declared and however the lines     *)
(* are ordered (A=h, B=${A}/a, C=${B}/v gives C = h/a/v in all six         *)
(* orders).                                                                *)

BraceOnly(v) == BareRefs(v) = {} /\ \A i \in DOMAIN v : v[i] = "$" =>
                   (i < Len(v) /\ v[i + 1] = "{" /\ CloseAt(v, i + 2) # 0)

IsChainInput ==
  /\ Len(Lines) = Len(ChainLines)
  /\ Range(Lines) = Range(ChainLines)

---------------------------------------------------------------------------
(* C5: if the references among the defined variables form a cycle (a       *)
(* self-reference, a pair, a cycle of any length) and nothing else in the  *)
(* input is in error, the parse fails with CircularExpansion, whatever the *)
(* cycle length and max_expansion_depth; it never returns a mapping.       *)
(* Stated at the default ceiling of 10, above every cycle of the inputs.   *)

RefersTo(k) == (BraceRefs(Declared(k)) \cup BareRefs(Declared(k))) \cap DeclaredKeys

\* The keys reachable from the set S along at most n references
RECURSIVE Reach(_, _)
Reach(S, n) ==
  IF n = 0 THEN S
  ELSE Reach(S \cup UNION { RefersTo(k) : k \in S }, n - 1)

HasCycle ==
  \E k \in DeclaredKeys : k \in Reach(RefersTo(k), Cardinality(DeclaredKeys))
NoUndefinedBrace ==
  \A k \in DeclaredKeys : BraceRefs(Declared(k)) \subseteq DeclaredKeys

C5_CycleFailsWithCircularExpansion ==
  ( /\ Done
    /\ IsRefInput
    /\ config.max_expansion_depth = DefaultDepth
    /\ HasCycle
    /\ NoUndefinedBrace )
    => result.kind = "CircularExpansion"

---------------------------------------------------------------------------
(* C6: parse_content terminates on every finite input under every          *)
(* configuration (cyclic references, sibling references that fan out, a    *)
(* large max_expansion_depth included): the line scan ends at the last     *)
(* line and every expansion ends with a result or an error.                *)

C6_ParseTerminates == <>Done

\* A cyclic input with a fan-out value has been answered under the
\* ceiling of 10
C6_Witness ==
  /\ Done
  /\ IsRefInput
  /\ HasCycle
  /\ config.max_expansion_depth = DefaultDepth
  /\ \E k \in DeclaredKeys : Cardinality(BraceRefs(Declared(k))) = 2

---------------------------------------------------------------------------
(* C7: every key of a returned mapping is non-empty, starts with an ASCII  *)
(* letter, continues with ASCII letters, digits or `_`, and under strict   *)
(* has no lowercase letter; an assignment line outside a block whose key   *)
(* breaks the rule ends the parse with InvalidKey carrying that line's     *)
(* 1-based number and the key, and a key that keeps the rule (MyKey with   *)
(* strict off) is never answered with InvalidKey.                          *)

Letters == Range(AsciiUpper) \cup Range(AsciiLower)
GoodKey(k, strict) ==
  /\ Len(k) >= 1
  /\ k[1] \in Letters
  /\ \A i \in 2..Len(k) : k[i] \in Letters \cup AsciiDigit \cup {"_"}
  /\ strict => \A i \in DOMAIN k : k[i] \notin Range(AsciiLower)

\* The line the scan is at is an assignment `key = value` without the
\* export prefix, read outside a block; KeyText is its key
AtAssignment ==
  /\ InLine
  /\ ~IsSkipped(trim(raw_line))
  /\ find(raw_line, "=") # 0
  /\ ~starts_with(trim(raw_line), Export)
KeyText == trim(SubSeq(raw_line, 1, find(raw_line, "=") - 1))

C7_KeysFollowTheGrammar ==
  /\ [](Succeeded => \A k \in DOMAIN result.vars : GoodKey(k, config.strict))
  /\ [][ AtAssignment =>
           IF GoodKey(KeyText, config.strict)
             THEN result'.kind # "InvalidKey"
             ELSE result' = InvalidKey(line_num, KeyText) ]_vars_all

\* MyKey on line 2 has been refused under strict
C7_Witness ==
  /\ Done
  /\ config.strict
  /\ result = InvalidKey(2, <<"A", "b">>)

---------------------------------------------------------------------------
(* C8: every value of a returned mapping is fully processed: a             *)
(* double-quoted value has its backslash escapes decoded whether it closes *)
(* on its own line or on a later one, and with allow_expansion every       *)
(* value, multi-line ones included, has its references substituted.  Here: *)
(* when every assignment of K is the double-quoted text that opens with    *)
(* the escape \t, the returned value of K starts with a tab and holds no   *)
(* backslash, and the single-quoted block '${J} ... ' holds J's value.     *)

EscOpen     == <<"K", "=", DQ, "\\", "t">>
IsAssignOfK(l) == Len(l) >= 2 /\ l[1] = "K" /\ l[2] = "="
IsEscInput ==
  /\ Lines # << >>
  /\ Lines[1] \in {EscOpen, Append(EscOpen, DQ)}
  /\ \A i \in DOMAIN Lines :
       IsAssignOfK(Lines[i]) => Lines[i] \in {EscOpen, Append(EscOpen, DQ)}

C8_ValuesAreFullyProcessed ==
  (Succeeded /\ IsEscInput /\ <<"K">> \in DOMAIN result.vars) =>
     /\ result.vars[<<"K">>][1] = "\t"
     /\ "\\" \notin Range(result.vars[<<"K">>])

---------------------------------------------------------------------------
(* C9: with allow_multiline, a double-quoted value left open on line 1 is  *)
(* completed by the first later line whose right-trimmed text ends with    *)
(* the quote; the stored value is line 1 after its opening quote, the      *)
(* lines between verbatim, and the closing line before its closing quote,  *)
(* joined by "\n": one opening and one closing quote removed, also when    *)
(* whitespace precedes the opening quote or the content starts with a      *)
(* quote.                                                                  *)

PlainOpeners ==
  { <<"K","=",DQ,"a">>, <<"K","="," ",DQ,"a">>, <<"K","=",DQ,DQ,"a">> }
ClosesDQ(l) == ends_with(trim_end(l), DQ)
IsOneBlock ==
  /\ config.allow_multiline
  /\ Len(Lines) >= 2
  /\ Lines[1] \in PlainOpeners
  /\ ClosesDQ(Lines[Len(Lines)])
  /\ \A i \in 2..(Len(Lines) - 1) : ~ClosesDQ(Lines[i])
AfterOpeningQuote(l) == SubSeq(l, find(l, DQ) + 1, Len(l))
BeforeClosingQuote(l) == SubSeq(trim_end(l), 1, Len(trim_end(l)) - 1)
BlockText ==
  Join(<<AfterOpeningQuote(Lines[1])>>
         \o SubSeq(Lines, 2, Len(Lines) - 1)
         \o <<BeforeClosingQuote(Lines[Len(Lines)])>>)

C9_BlockValueIsAssembled ==
  (Done /\ IsOneBlock) =>
     /\ result.kind = "Ok"
     /\ result.vars[<<"K">>] = BlockText

---------------------------------------------------------------------------
(* C10: when the input ends inside a multi-line block, the parse returns   *)
(* UnterminatedString whose line is the 1-based number of the line that    *)
(* opened the block, not the last line, and no mapping, however many valid *)
(* assignments came before the block.                                      *)

\* The text after the first "=" of the line l opens a block
OpensAt(l) ==
  LET t == trim(SubSeq(trim(l), find(trim(l), "=") + 1, Len(trim(l))))
  IN /\ ~IsSkipped(trim(l))
     /\ find(trim(l), "=") # 0
     /\ t # << >>
     /\ t[1] \in QuoteChars
     /\ ~(Len(t) >= 2 /\ t[Len(t)] = t[1])
OpeningQuote(l) == trim(SubSeq(trim(l), find(trim(l), "=") + 1, Len(trim(l))))[1]

\* The number of the line whose block is open once ls is read from line i
\* on, 0 if none; open is << >> or <<line, quote>> of the block open at i
RECURSIVE OpenAtEnd(_, _, _)
OpenAtEnd(ls, i, open) ==
  IF i > Len(ls) THEN (IF open = << >> THEN 0 ELSE open[1])
  ELSE IF open # << >>
    THEN OpenAtEnd(ls, i + 1,
                   IF ends_with(trim_end(ls[i]), open[2]) THEN << >> ELSE open)
  ELSE OpenAtEnd(ls, i + 1,
                 IF OpensAt(ls[i]) THEN <<i, OpeningQuote(ls[i])>> ELSE << >>)

C10_UnterminatedBlockNamesOpeningLine ==
  ( /\ Done
    /\ config.allow_multiline
    /\ OpenAtEnd(Lines, 1, << >>) # 0
    /\ result.kind \notin {"InvalidFormat", "InvalidKey"} )
    => result = UnterminatedString(OpenAtEnd(Lines, 1, << >>))

\* A block opened on line 2 of 3, behind a valid assignment, is open at
\* the end of the input
C10_Witness ==
  /\ Done
  /\ Len(Lines) = 3
  /\ DOMAIN vars = {<<"J">>}
  /\ result = UnterminatedString(2)

---------------------------------------------------------------------------
(* C11: when several lines of one input each trigger an error condition    *)
(* (no `=`, an invalid key, an undefined ${NAME}, a reference cycle), the   *)
(* one error parse_content returns is the error of the earliest such line  *)
(* of the input.                                                           *)

\* The error condition the line l triggers, "none" if it triggers none
ErrorOf(l) ==
  CASE l = <<"A","=","$","{","U","}">> -> "UndefinedVariable"
    [] l = <<"q">>                     -> "InvalidFormat"
    [] l = <<"1","=","v">>             -> "InvalidKey"
    [] l = <<"C","=","$","{","C","}">> -> "CircularExpansion"
    [] OTHER                           -> "none"
IsErrorInput ==
  /\ config = DefaultConfig
  /\ Lines # << >>
  /\ \A i \in DOMAIN Lines : Lines[i] \in ErrorLines
  /\ \E i \in DOMAIN Lines : ErrorOf(Lines[i]) # "none"
EarliestError ==
  ErrorOf(Lines[CHOOSE i \in DOMAIN Lines :
                  /\ ErrorOf(Lines[i]) # "none"
                  /\ \A j \in 1..(i - 1) : ErrorOf(Lines[j]) = "none"])

C11_EarliestErrorIsReturned ==
  (Done /\ IsErrorInput) => result.kind = EarliestError

---------------------------------------------------------------------------
(* C12: a top-level value whose longest chain of nested `${NAME}`          *)
(* references (acyclic, all defined) has n levels expands when             *)
(* n <= max_expansion_depth and fails with ExpansionDepthExceeded carrying *)
(* max = max_expansion_depth when n > max_expansion_depth: A=h, B=${A},    *)
(* C=${B}, D=${C} fails under the ceiling 2 and succeeds under 3.          *)

Max(S) == CHOOSE x \in S : \A y \in S : y <= x

\* The levels of the longest chain of references below the value of k
RECURSIVE Levels(_, _)
Levels(k, fuel) ==
  IF RefersTo(k) = {} \/ fuel = 0 THEN 0
  ELSE 1 + Max({ Levels(r, fuel - 1) : r \in RefersTo(k) })
DeepestChain ==
  Max({ Levels(k, Cardinality(DeclaredKeys)) : k \in DeclaredKeys })

IsAcyclicBraceInput ==
  /\ IsRefInput
  /\ \A k \in DeclaredKeys : BraceOnly(Declared(k))
  /\ NoUndefinedBrace
  /\ ~HasCycle

C12_DepthCeilingDecides ==
  (Done /\ IsAcyclicBraceInput) =>
     IF DeepestChain <= config.max_expansion_depth
       THEN result.kind = "Ok"
       ELSE /\ result.kind = "ExpansionDepthExceeded"
            /\ result.max = config.max_expansion_depth

\* The four-key chain has been refused under the ceiling 2
C12_Witness ==
  /\ Done
  /\ Len(Lines) = 4
  /\ IsAcyclicBraceInput
  /\ DeepestChain = 3
  /\ config.max_expansion_depth = 2
  /\ result.kind = "ExpansionDepthExceeded"

---------------------------------------------------------------------------
(* C13: with allow_expansion = false the expansion stage never runs: the   *)
(* returned mapping is the decoded mapping, a value with `${X}` or `$X` is *)
(* returned verbatim whether or not X is defined, and none of              *)
(* UndefinedVariable, CircularExpansion, ExpansionDepthExceeded is         *)
(* returned.                                                               *)

\* IsRefInput without its condition on the configuration
IsRefText ==
  /\ Lines # << >>
  /\ \A i \in DOMAIN Lines :
       /\ Len(Lines[i]) >= 2
       /\ Lines[i][1] \in Range(AsciiUpper)
       /\ Lines[i][2] = "="
       /\ \A j \in 3..Len(Lines[i]) : Lines[i][j] \in RefChars
  /\ \A i, j \in DOMAIN Lines : Lines[i][1] = Lines[j][1] => i = j

C13_NoExpansionWhenDisabled ==
  ~config.allow_expansion =>
     /\ pc # "expand"
     /\ Done =>
          /\ result.kind \notin {"UndefinedVariable", "CircularExpansion",
                                 "ExpansionDepthExceeded"}
          /\ Succeeded => result.vars = vars
          /\ IsRefText =>
               result = Ok([k \in DeclaredKeys |-> Declared(k)])

\* A cyclic value and an undefined reference have been returned verbatim
C13_Witness ==
  /\ Succeeded
  /\ ~config.allow_expansion
  /\ IsRefText
  /\ HasCycle
  /\ \E k \in DeclaredKeys : result.vars[k] = <<"$","{","U","}">>

---------------------------------------------------------------------------
(* C14: a double-quoted value closed on its own line is decoded in one     *)
(* left-to-right pass over the text between the quotes: \n, \r, \t, \\,    *)
(* \", \' become newline, carriage return, tab, backslash, double quote,   *)
(* single quote; a backslash before any other character stays with that   *)
(* character; a final lone backslash stays; every other character is       *)
(* copied (so \\n gives a backslash and the letter n).                     *)

IsEscapeInput ==
  /\ config = DefaultConfig
  /\ Len(content) >= 4
  /\ SubSeq(content, 1, 3) = <<"K", "=", DQ>>
  /\ content[Len(content)] = DQ
  /\ \A i \in 4..(Len(content) - 1) : content[i] \in EscapeAlphabet
EscapeText == SubSeq(content, 4, Len(content) - 1)

\* The backslash at position i opens an escape: an even number of
\* backslashes stands directly before it
RunBefore(s, i) ==
  Cardinality({ j \in 1..(i - 1) : \A h \in j..(i - 1) : s[h] = "\\" })
OpensEscape(s, i) == s[i] = "\\" /\ RunBefore(s, i) % 2 = 0
EscapeOf(c) ==
  CASE c = "n"  -> <<"\n">>
    [] c = "r"  -> <<"\r">>
    [] c = "t"  -> <<"\t">>
    [] c = "\\" -> <<"\\">>
    [] c = DQ   -> <<DQ>>
    [] c = SQ   -> <<SQ>>
    [] OTHER    -> <<"\\", c>>

\* What position i of s contributes to the decoded text
DecodedAt(s, i) ==
  IF OpensEscape(s, i)
    THEN (IF i = Len(s) THEN <<"\\">> ELSE EscapeOf(s[i + 1]))
  ELSE IF i > 1 /\ OpensEscape(s, i - 1) THEN << >>
  ELSE <<s[i]>>
RECURSIVE DecodedFrom(_, _)
DecodedFrom(s, i) ==
  IF i > Len(s) THEN << >> ELSE DecodedAt(s, i) \o DecodedFrom(s, i + 1)

C14_EscapesDecodedLeftToRight ==
  (Done /\ IsEscapeInput) =>
     result = Ok([k \in {<<"K">>} |-> DecodedFrom(EscapeText, 1)])

\* KEY="\\n" has been decoded to a backslash and the letter n
C14_Witness ==
  /\ Done
  /\ content = <<"K", "=", DQ, "\\", "\\", "n", DQ>>
  /\ result = Ok([k \in {<<"K">>} |-> <<"\\", "n">>])

---------------------------------------------------------------------------
(* C15: with allow_inline_comments = true an unquoted value is cut at its  *)
(* first `#` and the rest right-trimmed, so it never holds a `#`; with     *)
(* allow_inline_comments = false the `#` and the text after it stay; a `#` *)
(* inside a quoted value closed on the same line is kept under both        *)
(* settings.                                                               *)

CommentRest == SubSeq(content, 3, Len(content))
IsQuotedRest(r) ==
  /\ Len(r) >= 2
  /\ r[1] \in {DQ, SQ}
  /\ r[Len(r)] = r[1]
  /\ \A i \in 2..(Len(r) - 1) : r[i] \in CommentAlphabet
IsCommentInput ==
  /\ [config EXCEPT !.allow_inline_comments = TRUE] = DefaultConfig
  /\ Len(content) >= 2
  /\ SubSeq(content, 1, 2) = <<"K", "=">>
  /\ \/ \A i \in DOMAIN CommentRest : CommentRest[i] \in CommentAlphabet
     \/ IsQuotedRest(CommentRest)
BeforeHash(s) == IF find(s, "#") = 0 THEN s ELSE SubSeq(s, 1, find(s, "#") - 1)
CommentValue ==
  IF IsQuotedRest(CommentRest)
    THEN SubSeq(CommentRest, 2, Len(CommentRest) - 1)
  ELSE IF config.allow_inline_comments THEN trim(BeforeHash(CommentRest))
  ELSE trim(CommentRest)

C15_InlineCommentCutsUnquotedOnly ==
  (Done /\ IsCommentInput) =>
     /\ result = Ok([k \in {<<"K">>} |-> CommentValue])
     /\ (config.allow_inline_comments /\ ~IsQuotedRest(CommentRest))
          => "#" \notin Range(result.vars[<<"K">>])

\* KEY=a # has kept its `#` with inline comments off
C15_Witness ==
  /\ Done
  /\ ~config.allow_inline_comments
  /\ content = <<"K", "=", "a", " ", "#">>
  /\ result = Ok([k \in {<<"K">>} |-> <<"a", " ", "#">>])

---------------------------------------------------------------------------
(* C16: re-parsing is idempotent: for every mapping M a successful parse   *)
(* can return whose values hold no whitespace, quote, `#`, `$` or          *)
(* backslash, the text with one KEY=value line per entry of M, in any      *)
(* order, parsed with the same configuration, gives exactly M.             *)

\* The key and the value a line of a serialization was written from
WrittenKey(l) == SubSeq(l, 1, find(l, "=") - 1)
WrittenValue(l) == SubSeq(l, find(l, "=") + 1, Len(l))
WrittenKeys == { WrittenKey(Lines[i]) : i \in DOMAIN Lines }
WrittenMapping ==
  [k \in WrittenKeys |->
     WrittenValue(Lines[CHOOSE i \in DOMAIN Lines : WrittenKey(Lines[i]) = k])]

\* The content is format(M, order) for a mapping M over SerialKeys that a
\* parse under this configuration can return
IsSerialInput ==
  /\ [config EXCEPT !.strict = FALSE] = DefaultConfig
  /\ \A i \in DOMAIN Lines :
       /\ find(Lines[i], "=") # 0
       /\ WrittenKey(Lines[i]) \in SerialKeys
       /\ GoodKey(WrittenKey(Lines[i]), config.strict)
  /\ \A i, j \in DOMAIN Lines :
       WrittenKey(Lines[i]) = WrittenKey(Lines[j]) => i = j
  /\ WrittenMapping \in SerialMappings
  /\ content = format(WrittenMapping, [i \in DOMAIN Lines |-> WrittenKey(Lines[i])])

---------------------------------------------------------------------------
(* C17: the export prefix is transparent: for every key text K and value   *)
(* text v, parsing `export K=v` returns the same result (the same mapping, *)
(* or the same error variant) as parsing `K=v`.  Here: K ranges over       *)
(* ExportKeys and v over ExportValues; a call on either text returns what  *)
(* the one-line path of parse_content gives for `K=v` and also what it     *)
(* gives for `export K=v`.                                                 *)

\* What parse_content returns for a content of one line that neither opens
\* a block nor holds a `$`: lines 327-354 once, then expand_all over a
\* value it leaves as it is
line_result(cfg, text) ==
  Let(trim(text), LAMBDA line :
    IF IsSkipped(line) THEN Ok(EmptyMap)
    ELSE Let(split_key_value(line, 1), LAMBDA kv :
      IF ~kv.ok THEN kv.err
      ELSE IF ~validate_key(cfg, kv.key) THEN InvalidKey(1, kv.key)
      ELSE Let(parse_value(cfg, kv.raw, 1), LAMBDA v :
        IF v.ok THEN Ok(insert(EmptyMap, kv.key, v.value)) ELSE v.err)))

Plain(k, v)    == k \o <<"=">> \o v
Exported(k, v) == Export \o <<" ">> \o k \o <<"=">> \o v

\* Same mapping, or same error variant
SameResult(r, s) ==
  /\ r.kind = s.kind
  /\ r.kind = "Ok" => r.vars = s.vars

C17_ExportPrefixIsTransparent ==
  \A k \in ExportKeys, v \in ExportValues :
    (Done /\ content \in {Plain(k, v), Exported(k, v)}) =>
      /\ SameResult(result, line_result(config, Plain(k, v)))
      /\ SameResult(result, line_result(config, Exported(k, v)))

---------------------------------------------------------------------------
(* C18: with allow_multiline off the parser never accumulates across       *)
(* lines: a value that starts with a quote character and does not end with *)
(* the same character on its own line, or is one character long, ends the  *)
(* parse with UnterminatedString carrying that line's 1-based number, and  *)
(* no later line is read as part of that value.  Here: no block is ever    *)
(* open, and when line i is the first line that is not a comment, a blank  *)
(* or a well-formed closed assignment, and it opens a quote, the parse     *)
(* ends at line i with UnterminatedString(i).                              *)

\* The line l reads `key = ...` with a key the configuration accepts
ReadsAsAssignment(l) ==
  /\ ~IsSkipped(trim(l))
  /\ ~starts_with(trim(l), Export)
  /\ find(l, "=") # 0
  /\ GoodKey(trim(SubSeq(l, 1, find(l, "=") - 1)), config.strict)

\* Line i leaves its quote open and every line before it is passed over
\* or is an assignment that does not
OpenQuoteAt(i) ==
  /\ ReadsAsAssignment(Lines[i])
  /\ OpensAt(Lines[i])
  /\ \A j \in 1..(i - 1) :
        \/ IsSkipped(trim(Lines[j]))
        \/ ReadsAsAssignment(Lines[j]) /\ ~OpensAt(Lines[j])

C18_NoAccumulationWhenMultilineOff ==
  ~config.allow_multiline =>
     /\ ml_key = None
     /\ \A i \in DOMAIN Lines :
          (Done /\ OpenQuoteAt(i)) =>
             /\ result = UnterminatedString(i)
             /\ line_num = i

\* A lone quote on line 2 is refused although line 3 would close it
C18_Witness ==
  /\ Done
  /\ ~config.allow_multiline
  /\ Lines = << <<"J","=","c">>, <<"K","=",DQ>>, <<"b",DQ>> >>
  /\ result = UnterminatedString(2)

---------------------------------------------------------------------------
(* C19: a line outside a multi-line block that is neither blank nor a      *)
(* full-line comment and holds no `=` ends the parse with InvalidFormat    *)
(* carrying the line's 1-based physical number (blank, comment and         *)
(* continuation lines before it are counted) and the message "missing '='  *)
(* separator"; the split is at the first `=`, so later `=` characters      *)
(* belong to the value.  The physical lines are read off the content by    *)
(* counting its newline characters.                                        *)

Min(S) == CHOOSE x \in S : \A y \in S : x <= y

\* The physical line of position i, and the positions of line n
LineOf(i) == 1 + Cardinality({ j \in 1..(i - 1) : content[j] = "\n" })
CharsOf(n) == { i \in DOMAIN content : content[i] # "\n" /\ LineOf(i) = n }
HasSeparator(n) == \E i \in CharsOf(n) : content[i] = "="
Inked(n) == { i \in CharsOf(n) : ~is_whitespace(content[i]) }
IsBlankOrComment(n) == Inked(n) = {} \/ content[Min(Inked(n))] = "#"
MissingSeparator ==
  <<"m","i","s","s","i","n","g"," ","'","=","'"," ",
    "s","e","p","a","r","a","t","o","r">>

\* The content is one line `K=v` whose value holds a `=`: a key the
\* configuration accepts, then a value over the letter a and `=`
FirstSeparator == Min({ i \in CharsOf(1) : content[i] = "=" })
IsOneAssignment ==
  /\ \A i \in DOMAIN content : LineOf(i) = 1
  /\ HasSeparator(1)
  /\ GoodKey(SubSeq(content, 1, FirstSeparator - 1), config.strict)
  /\ \A i \in CharsOf(1) : i > FirstSeparator => content[i] \in {"a", "="}
  /\ \E i \in CharsOf(1) : i > FirstSeparator /\ content[i] = "="
  /\ ~starts_with(content, Export)

C19_MissingSeparatorIsInvalidFormat ==
  /\ [][ (InLine /\ ~IsBlankOrComment(idx + 1) /\ ~HasSeparator(idx + 1)) =>
           /\ pc' = "done"
           /\ result' = [kind |-> "InvalidFormat", line |-> idx + 1,
                          message |-> MissingSeparator] ]_vars_all
  /\ []( (Done /\ result.kind = "InvalidFormat") =>
           /\ result.line \in 1..Len(Lines)
           /\ result.message = MissingSeparator
           /\ ~IsBlankOrComment(result.line)
           /\ ~HasSeparator(result.line) )
  /\ []( (Done /\ IsOneAssignment) =>
           result = Ok(insert(EmptyMap,
                              SubSeq(content, 1, FirstSeparator - 1),
                              SubSeq(content, FirstSeparator + 1,
                                     Max(CharsOf(1))))) )

\* The third physical line has no `=`; the two before it are the opening
\* and the closing line of a block
C19_Witness ==
  /\ Done
  /\ Lines = << <<"K","=",DQ,"a">>, <<"b",DQ," ">>, <<" ","b"," ">> >>
  /\ result = InvalidFormat(3)

---------------------------------------------------------------------------
(* C20: a Parser holds only its immutable configuration: any interleaving  *)
(* of two or more parse_content calls on one shared Parser gives each call *)
(* the result it gets when run alone, and the result of a call does not    *)
(* depend on the calls that ran before it, successful or failed, those     *)
(* that ended inside a multi-line block included.  Here: under SharedSpec  *)
(* the configuration stays what the Parser was built with, and every call  *)
(* that has returned, running or set aside, in whatever order the threads  *)
(* were scheduled and whatever calls came before, has the result of the    *)
(* call made alone on a new Parser.                                        *)

\* What a call with the content c returns when it is the only call
AloneResult(c) ==
  CASE c = SharedSkipAndExpand ->
         Ok(insert(insert(insert(EmptyMap, <<"A">>, <<"x">>),
                          <<"B">>, <<"x", "x">>), <<"C">>, <<"$">>))
    [] c = SharedOpenBlock   -> UnterminatedString(1)
    [] c = SharedClosedBlock -> Ok(insert(EmptyMap, <<"K">>, <<"a", "\n", "b">>))
    [] c = SharedNoSeparator -> InvalidFormat(1)
    [] c = SharedBadKey      -> InvalidKey(1, <<"1">>)
    [] c = SharedAssignment  -> Ok(insert(EmptyMap, <<"A">>, <<"x">>))

C20_CallsDoNotInterfere ==
  /\ config = DefaultConfig
  /\ \A c \in {Call} \cup Range(suspended) :
        c.pc = "done" => c.result = AloneResult(c.content)

\* A call has returned its mapping while the call of the other thread is
\* set aside inside a multi-line block
C20_Witness ==
  /\ Done
  /\ content = SharedSkipAndExpand
  /\ result = AloneResult(SharedSkipAndExpand)
  /\ suspended # << >>
  /\ suspended[1].pc = "scan"
  /\ suspended[1].ml_key # None

---------------------------------------------------------------------------
(* C21: outside a multi-line block, lines that are empty after trimming or *)
(* whose trimmed text starts with `#` contribute nothing: inserting or     *)
(* removing such lines between assignment lines leaves the returned        *)
(* mapping unchanged.  Here: the step taken at such a line changes nothing *)
(* but the position in the input, and for up to MaxLines lines of plain    *)
(* assignments, blanks and comments the mapping is the one read off the    *)
(* assignment lines alone, in their order.                                 *)

\* The content is made of SkipLines; the lines that are kept, and the
\* mapping the kept lines spell (a later assignment of a key wins)
IsSkipInput ==
  /\ config = DefaultConfig
  /\ content # << >>
  /\ \A n \in DOMAIN Lines : Lines[n] \in SkipLines
KeptLines == { n \in DOMAIN Lines : ~IsBlankOrComment(n) }
LastAssignment(k) == Max({ n \in KeptLines : WrittenKey(Lines[n]) = k })
KeptMapping ==
  [k \in { WrittenKey(Lines[n]) : n \in KeptLines } |->
     WrittenValue(Lines[LastAssignment(k)])]

C21_BlankAndCommentLinesContributeNothing ==
  /\ [][ (InLine /\ IsBlankOrComment(idx + 1)) =>
           /\ idx' = idx + 1
           /\ UNCHANGED <<config, content, pc, vars, ml_key, ml_value,
                          ml_quote, ml_start_line, result>> ]_vars_all
  /\ []( (Done /\ IsSkipInput) => result = Ok(KeptMapping) )

\* A comment that reads like an assignment of A stands between two
\* assignments and the mapping is that of the two
C21_Witness ==
  /\ Done
  /\ Lines = << <<"A","=","x">>, <<" ","#","A","=","q">>, <<"B","=","y">> >>
  /\ result = Ok(insert(insert(EmptyMap, <<"A">>, <<"x">>), <<"B">>, <<"y">>))

---------------------------------------------------------------------------
(* C22: while a multi-line block is open, each following line is only      *)
(* appended to the pending value or closes it: it is never split at `=`,   *)
(* key-validated, skipped as blank or comment, or able to raise an error,  *)
(* and no key is added to the mapping until a line whose right-trimmed     *)
(* text ends with the opening quote character (not merely another quote    *)
(* character) closes the block; the very next line is then read as a       *)
(* normal line, and a later block's value holds nothing left over from the *)
(* earlier one.                                                            *)

\* The last character of the physical line idx + 1 that is not whitespace,
\* as a position of the line; 0 if there is none
LastInked ==
  IF \A i \in DOMAIN Lines[idx + 1] : is_whitespace(Lines[idx + 1][i])
    THEN 0
    ELSE Max({ i \in DOMAIN Lines[idx + 1] :
                 ~is_whitespace(Lines[idx + 1][i]) })
EndsWithOpeningQuote ==
  IF LastInked = 0 THEN FALSE ELSE Lines[idx + 1][LastInked] = ml_quote

BlockIsOpen == pc = "scan" /\ idx < Len(Lines) /\ ml_key # None

C22_OpenBlockOnlyAccumulatesOrCloses ==
  /\ [][ BlockIsOpen =>
           /\ idx' = idx + 1
           /\ pc' = pc
           /\ result' = result
           /\ IF EndsWithOpeningQuote
                THEN /\ vars' = [k \in DOMAIN vars \cup {ml_key[1]} |->
                                   IF k = ml_key[1]
                                     THEN ml_value \o <<"\n">>
                                            \o SubSeq(Lines[idx + 1], 1,
                                                       LastInked - 1)
                                     ELSE vars[k]]
                     /\ ml_key' = None
                     /\ ml_value' = << >>
                ELSE /\ vars' = vars
                     /\ ml_key' = ml_key
                     /\ ml_value' = ml_value \o <<"\n">> \o Lines[idx + 1]
         ]_vars_all
  /\ [][ (pc = "scan" /\ ml_key = None /\ ml_key' # None) =>
           \E j \in 1..(Len(trim_end(Lines[idx + 1])) + 1) :
             ml_value' = SubSeq(trim_end(Lines[idx + 1]), j,
                                Len(trim_end(Lines[idx + 1])))
         ]_vars_all

\* A block closed on line 2, with a line that ends with another quote
\* character not in it, and the next line has opened a block of its own
C22_Witness ==
  /\ pc = "scan"
  /\ idx = 3
  /\ Lines = << <<"K","=",DQ,"a">>, <<"b",DQ," ">>, <<"K","=",DQ,"a">> >>
  /\ vars = insert(EmptyMap, <<"K">>, <<"a", "\n", "b">>)
  /\ ml_key = Some(<<"K">>)
  /\ ml_value = <<"a">>

---------------------------------------------------------------------------
(* C23: a line without an `export ` token keeps its key intact: for every  *)
(* key K that satisfies the key grammar, keys that merely begin with the   *)
(* letters export (exports, exportDir) included, parsing `K=v` with a      *)
(* plain value v succeeds and returns a mapping whose only key is K.       *)

C23_KeyWithoutExportTokenIsKept ==
  \A k \in ExportKeys, v \in ExportValues :
    (Done /\ content = Plain(k, v) /\ GoodKey(k, config.strict)) =>
       result = Ok(insert(EmptyMap, k, v))

---------------------------------------------------------------------------
(* C24: cycle detection and the depth ceiling follow nesting only: the     *)
(* name pushed for a reference is popped as soon as its expansion returns, *)
(* so a value that mentions the same defined variable several times side   *)
(* by side (${B}${B}) or reaches it along two paths (A=${B}${C}, B=${D},   *)
(* C=${D}) is not a CircularExpansion, and any number of side-by-side      *)
(* references whose nesting stays within max_expansion_depth expands.      *)

C24_CycleAndDepthFollowNesting ==
  /\ [][ (pc = "expand" /\ Len(frames') < Len(frames) /\ Len(frames') >= 1) =>
           stack' = SubSeq(stack, 1, Len(stack) - 1) ]_vars_all
  /\ []( (Done /\ IsAcyclicBraceInput) =>
           /\ result.kind # "CircularExpansion"
           /\ DeepestChain <= config.max_expansion_depth =>
                /\ result.kind = "Ok"
                /\ content = SideBySide =>
                     result.vars[<<"A">>] = <<"x", "x", "x">>
                /\ content = Diamond =>
                     result.vars[<<"A">>] = <<"x", "x">> )

\* D, reached through B and through C, has been expanded twice under the
\* ceiling 2, the nesting of the value of A
C24_Witness ==
  /\ Done
  /\ content = Diamond
  /\ config.max_expansion_depth = 2
  /\ DeepestChain = 2
  /\ result.kind = "Ok"
  /\ result.vars[<<"A">>] = <<"x", "x">>

---------------------------------------------------------------------------
(* C25: on one assignment line the key is validated before the value is    *)
(* looked at: a line with both an invalid key and an unterminated quoted   *)
(* value fails with InvalidKey, not UnterminatedString, and a line with an *)
(* invalid key whose value opens a quote fails at that line without        *)
(* entering multi-line accumulation.                                       *)

\* The first line has a key that breaks the key rule and a value that
\* leaves its quote open
IsBadKeyQuoteInput ==
  /\ content # << >>
  /\ find(Lines[1], "=") # 0
  /\ ~starts_with(Lines[1], Export)
  /\ ~IsBlankOrComment(1)
  /\ ~GoodKey(trim(WrittenKey(Lines[1])), config.strict)
  /\ OpensAt(Lines[1])

C25_KeyIsValidatedBeforeValue ==
  /\ [][ (AtAssignment /\ ~GoodKey(KeyText, config.strict)) =>
           /\ pc' = "done"
           /\ result' = InvalidKey(idx + 1, KeyText)
           /\ ml_key' = None ]_vars_all
  /\ []( (Done /\ IsBadKeyQuoteInput) =>
           /\ result = InvalidKey(1, trim(WrittenKey(Lines[1])))
           /\ ml_key = None
           /\ idx = 0 )

\* 1="a, followed by a line that would close the block, is refused at
\* line 1 for its key with allow_multiline on
C25_Witness ==
  /\ Done
  /\ config.allow_multiline
  /\ Lines = << <<"1","=",DQ,"a">>, <<"b",DQ>> >>
  /\ result = InvalidKey(1, <<"1">>)
  /\ ml_key = None

---------------------------------------------------------------------------
(* C26: the cycle text of a CircularExpansion error is the cycle path: a   *)
(* chain of variable names in reference order that begins and ends with    *)
(* the repeated variable (A -> B -> A) and holds only variables that take  *)
(* part in the cycle, also when the cycle is reached from a top-level key  *)
(* that is not itself on the cycle.  The text is kept as the list of its   *)
(* names.                                                                  *)

C26_CycleTextIsTheCyclePath ==
  (Done /\ IsRefInput /\ result.kind = "CircularExpansion") =>
     /\ Len(result.cycle) >= 2
     /\ result.cycle[1] = result.cycle[Len(result.cycle)]
     /\ \A i \in 1..(Len(result.cycle) - 1) :
          /\ result.cycle[i] \in DeclaredKeys
          /\ result.cycle[i + 1] \in RefersTo(result.cycle[i])

---------------------------------------------------------------------------
(* C27: parse_content is a function of (configuration, content): two runs  *)
(* on the same input return the same mapping or the same error variant     *)
(* with the same fields, also when several keys have failing expansions of *)
(* different kinds or when a cycle can be entered from different keys: the *)
(* order in which the keys are visited during expansion does not change    *)
(* the outcome.  Here, under TwinSpec: two finished runs on one content    *)
(* have one result.                                                        *)

C27_SameInputSameResult ==
  \A c \in Range(suspended) :
    (Done /\ c.pc = "done" /\ c.content = content) => c.result = result

---------------------------------------------------------------------------
(* C28: during the expansion of one top-level value the active name stack  *)
(* starts empty, always has length equal to the current recursion depth,   *)
(* holds only names that are keys of the mapping, and never holds a name   *)
(* twice; hence the depth never exceeds the number of defined keys, and    *)
(* ExpansionDepthExceeded cannot be returned when max_expansion_depth is   *)
(* at least the number of keys in the input.                               *)

C28_StackMirrorsNesting ==
  /\ (pc = "expand" /\ frames # << >>) =>
       /\ Len(frames) = 1 => stack = << >>
       /\ Len(stack) = Top.depth
       /\ \A i \in DOMAIN frames : frames[i].depth = i - 1
       /\ Range(stack) \subseteq DOMAIN vars
       /\ \A i, j \in DOMAIN stack : stack[i] = stack[j] => i = j
       /\ Top.depth <= Cardinality(DOMAIN vars)
  /\ (Done /\ result.kind = "ExpansionDepthExceeded") =>
       config.max_expansion_depth < Cardinality(DOMAIN vars)

\* Two keys, the ceiling 2, and the nesting has reached 2: both names are
\* on the stack
C28_Witness ==
  /\ pc = "expand"
  /\ config.max_expansion_depth = 2
  /\ Cardinality(DOMAIN vars) = 2
  /\ Len(stack) = 2
  /\ Len(frames) = 3

---------------------------------------------------------------------------
(* C29: when the same key is assigned more than once in one input, the     *)
(* returned mapping holds a single entry for it whose value comes from the *)
(* assignment completed last in line order (a multi-line block counts at   *)
(* its closing line), and every `${KEY}` reference elsewhere in the file,  *)
(* before or after, resolves to that last value.                           *)

\* The content is made of DupLines and assigns A; the value of the last
\* line that assigns A
IsDupInput ==
  /\ config = DefaultConfig
  /\ content # << >>
  /\ \A n \in DOMAIN Lines : Lines[n] \in DupLines
  /\ \E n \in DOMAIN Lines : Lines[n][1] = "A"
LastValueOfA ==
  WrittenValue(Lines[Max({ n \in DOMAIN Lines : Lines[n][1] = "A" })])

---------------------------------------------------------------------------
(* C30: the trim_values switch has no observable effect: for every content *)
(* and every setting of the other five switches, parse_content with        *)
(* trim_values on and off return the same result, because the line's       *)
(* trailing whitespace and the raw value's leading whitespace are removed  *)
(* before the switch is consulted (an unquoted value never starts or ends  *)
(* with whitespace under either setting, and quoted values keep their      *)
(* inner whitespace under both).                                           *)

TrimOn  == [config EXCEPT !.trim_values = TRUE]
TrimOff == [config EXCEPT !.trim_values = FALSE]

\* The text after the first `=` of the line the scan is at
RawValueHere ==
  SubSeq(trim(raw_line), find(trim(raw_line), "=") + 1, Len(trim(raw_line)))

\* The content is K=<text over TrimAlphabet> on one line
IsTrimInput ==
  /\ Len(content) >= 2
  /\ content[1] = "K"
  /\ content[2] = "="
  /\ \A i \in 3..Len(content) : content[i] \in TrimAlphabet
  /\ [config EXCEPT !.trim_values = TRUE, !.allow_inline_comments = TRUE,
                     !.allow_multiline = TRUE] = DefaultConfig

=============================================================================
